---- MODULE Spec2Model ----
(***************************************************************************)
(* Model of src/src/cache_service.py: the cache / rate-limit / coalescing  *)
(* service in its two variants, TaoStatsCacheService (async, cooperative   *)
(* tasks that interleave only at "await fetch_fn()") and                   *)
(* SyncTaoStatsCacheService (blocking, callers are threads).               *)
(*                                                                         *)
(* The service is built with persistent_cache_enabled = True (the default) *)
(* and finds no cache file.  A step reads the clock once: every            *)
(* int(time.time() * 1000) of a step gives the same now.  fetch_fn is the  *)
(* caller's: it returns a value of Values or raises an error of            *)
(* FetchErrors, at any later moment.  The snapshot's list of [key, dict]   *)
(* pairs is a mapping from keys to dicts.                                  *)
(***************************************************************************)
EXTENDS Integers, Sequences, FiniteSets, TLC

\* ------------------------------------------------------------ constants
\* self.window_size_ms = 60 * 1000
window_size_ms == 60000
\* options.get('minute_request_limit', 5)
default_minute_request_limit == 5
\* server.make_api_request: ttl = 24 * 60 * 60 * 1000
ttl_historical == 86400000
\* ttl = 60 * 60 * 1000
ttl_semi_dynamic == 3600000
\* ttl = 5 * 60 * 1000
ttl_dynamic == 300000

\* ------------------------------------------------------------ bounds
\* number of call slots (callers that can be inside with_cache at once)
MaxCalls == 2
\* minute_request_limit is drawn from 0..MaxLimit at construction
MaxLimit == 1
\* the clock takes the values 0, Quantum, ..., MaxCoarse * Quantum
MaxCoarse == 2
\* the millisecond clock of the rate-limit scenario takes the values 0..MaxFine
MaxFine == 10
\* the entries written under the millisecond clock have a ttl in 0..MaxTtl
MaxTtl == 2
\* the ledgers whose snapshots are written and loaded have up to this length
MaxLedgerLoaded == 2

Quantum == window_size_ms \div 2
Calls == 1..MaxCalls
Keys == {"a"}
Values == {"v1", "v2"}
TTLs == {Quantum}
Times == {c * Quantum : c \in 0..MaxCoarse}
FetchErrors == {"UpstreamError"}
Limits == 0..MaxLimit

\* ------------------------------------------------------------ values
\* Python's None, as a returned value
None == "None"
\* Python's None, where a CacheEntry is expected (self.cache.get(key) on a miss)
NoneEntry == [data |-> None, timestamp |-> -1, expires_at |-> -1]

Return(v) == [kind |-> "return", val |-> v]
Raise(e) == [kind |-> "raise", val |-> e]
NoResult == [kind |-> "none", val |-> None]

VARIABLES
    variant,               \* "async" (TaoStatsCacheService) or "sync" (SyncTaoStatsCacheService)
    minute_request_limit,  \* self.minute_request_limit
    cache,                 \* self.cache: dict key -> CacheEntry
    pending_requests,      \* self.pending_requests: dict key -> coroutine (its call slot) / True
    request_timestamps,    \* self.request_timestamps: list of ms
    now,                   \* int(time.time() * 1000)
    disk,                  \* content of the file at self.cache_path (NoFile: no file)
    calls,                 \* per call slot: position in with_cache and its locals
    joined,                \* history: per key, the outcomes handed to callers that found
                           \* the PendingRequest registered last for the key
    ev                     \* history: what the last step was and what it returned

vars == <<variant, minute_request_limit, cache, pending_requests, request_timestamps,
          now, disk, calls, joined, ev>>

\* ------------------------------------------------------------ CacheEntry
\* a CacheEntry whose expiry does not start from the time it is written
CacheEntry_TtlOnly(data, ttl, t) == [data |-> data, timestamp |-> t, expires_at |-> ttl]

\* a CacheEntry that forgets its ttl
CacheEntry_NoTtl(data, ttl, t) == [data |-> data, timestamp |-> t, expires_at |-> t]

CacheEntry(data, ttl, t) == [data |-> data, timestamp |-> t, expires_at |-> t + ttl]

\* is_expired with the comparison off by one: an entry counts as expired from
\* the very millisecond expires_at
is_expired_AtExpiry(entry, t) == t >= entry.expires_at

is_expired(entry, t) == t > entry.expires_at

to_dict(entry) == [data |-> entry.data, timestamp |-> entry.timestamp, expiresAt |-> entry.expires_at]

\* self.cache.get(key)
cache_get(c, key) == IF key \in DOMAIN c THEN c[key] ELSE NoneEntry

\* a store that drops what is put
cache_put_Lost(c, key, entry) == c

\* self.cache[key] = entry
cache_put(c, key, entry) == [k \in DOMAIN c \cup {key} |-> IF k = key THEN entry ELSE c[k]]

\* del d[key]
dict_del(d, key) == [k \in DOMAIN d \ {key} |-> d[k]]

\* d[key] = value
dict_set(d, key, value) == [k \in DOMAIN d \cup {key} |-> IF k = key THEN value ELSE d[k]]

EmptyDict == [k \in {} |-> None]

\* ------------------------------------------------------------ call ledger
\* a cleanup that counts the check itself as a request
cleanup_expired_timestamps_Recording(ts, t) ==
    Append(SelectSeq(ts, LAMBDA x : t - x < window_size_ms), t)

cleanup_expired_timestamps(ts, t) == SelectSeq(ts, LAMBDA x : t - x < window_size_ms)

\* a comparison that lets the ledger reach the limit before it refuses
has_reached_rate_limit_Strict(ts, limit) == Len(ts) > limit

\* a comparison that counts the request being made
has_reached_rate_limit_OffByOne(ts, limit) == Len(ts) + 1 >= limit

\* the comparison of _has_reached_rate_limit, on the ledger its cleanup left
has_reached_rate_limit(ts, limit) == Len(ts) >= limit

record_request(ts, t) == Append(ts, t)

SeqMin(s) == CHOOSE m \in {s[i] : i \in 1..Len(s)} : \A i \in 1..Len(s) : m <= s[i]

Max(a, b) == IF a >= b THEN a ELSE b

get_wait_time_ms(ts, t) ==
    IF ts = <<>> THEN 0
    ELSE Max(0, (SeqMin(ts) + window_size_ms) - t)

\* the wait the rate-limit message states: f'need to wait {wait_time // 1000} seconds'
message_seconds(wait_time) == wait_time \div 1000

\* the ledger is not grown beyond this length (critical calls and racing
\* threads can push it past the limit)
MaxLedger == Max(MaxLimit, minute_request_limit) + 1

\* ------------------------------------------------------------ snapshot
NoFile == [timestamp |-> -1, requestTimestamps |-> <<>>, entries |-> EmptyDict]

\* the cache_data written by _persist_cache
persist_cache(c, ts, t) ==
    [timestamp |-> t,
     requestTimestamps |-> ts,
     entries |-> [k \in DOMAIN c |-> to_dict(c[k])]]

\* ------------------------------------------------------------ with_cache
\* the locals of a call that outlive a step: key, the options read again later,
\* and cached_entry; fetches counts the times the call has invoked fetch_fn
IdleCall == [pc |-> "idle", key |-> "a", ttl |-> 0, force_refresh |-> FALSE,
             fallback_to_cache |-> FALSE, cached_entry |-> NoneEntry, fetches |-> 0]

Options == [ttl : TTLs, force_refresh : BOOLEAN, fallback_to_cache : BOOLEAN,
            critical : BOOLEAN, fail_silently : BOOLEAN]

NoOptions == [ttl |-> 0, force_refresh |-> FALSE, fallback_to_cache |-> FALSE,
              critical |-> FALSE, fail_silently |-> FALSE]

\* the service's state as a step finds it
Pre == [cache |-> cache, pending_requests |-> pending_requests,
        request_timestamps |-> request_timestamps, disk |-> disk, now |-> now,
        calls |-> calls]

NoEvent == [step |-> "none", call |-> 0, key |-> "a", o |-> NoOptions,
            cached_entry |-> NoneEntry, fetched |-> NoResult, result |-> NoResult,
            wait_time |-> 0, message_seconds |-> 0, joined |-> {}, pre |-> <<>>]

\* the record of a step of call slot c: the key and options of the call, the
\* cached_entry it holds, what fetch_fn gave (fetched), what the call returned
\* or raised (result; NoResult while it goes on), the wait_time of the
\* rate-limit branch and the seconds its message states, and the state it found
Event(step, c, key, o, entry, fetched, result, wait, j) ==
    [step |-> step, call |-> c, key |-> key, o |-> o, cached_entry |-> entry,
     fetched |-> fetched, result |-> result, wait_time |-> wait,
     message_seconds |-> message_seconds(wait), joined |-> j, pre |-> Pre]

\* the options a call in flight still holds
OptionsOf(call) ==
    [ttl |-> call.ttl, force_refresh |-> call.force_refresh,
     fallback_to_cache |-> call.fallback_to_cache, critical |-> FALSE,
     fail_silently |-> FALSE]

\* the pending check without its "and not force_refresh"
\* a pending check that never finds the request
PendingJoin_Never(pend, key, force_refresh) == FALSE

PendingJoin_IgnoringForce(pend, key, force_refresh) == key \in DOMAIN pend

\* "if key in self.pending_requests and not force_refresh"
PendingJoin(pend, key, force_refresh) == key \in DOMAIN pend /\ ~force_refresh

\* "if cached_entry and not force_refresh and not cached_entry.is_expired()"
CacheHit(entry, force_refresh, t) ==
    entry # NoneEntry /\ ~force_refresh /\ ~is_expired(entry, t)

\* the rate-limit check without its "and not critical"
Denied_IgnoringCritical(ts, limit, critical) == Len(ts) >= limit

\* "if self._has_reached_rate_limit() and not critical", ts being the cleaned ledger
Denied(ts, limit, critical) == has_reached_rate_limit(ts, limit) /\ ~critical

\* the rate-limit branch with fail_silently tested before the fallback
LimitedResult_SilentFirst(entry, fallback_to_cache, fail_silently) ==
    IF fail_silently THEN [kind |-> "return", val |-> "None"]
    ELSE IF entry.timestamp >= 0 /\ fallback_to_cache THEN [kind |-> "return", val |-> entry.data]
    ELSE [kind |-> "raise", val |-> "RateLimit"]

\* the three ways out of the rate-limit branch
LimitedResult(entry, fallback_to_cache, fail_silently) ==
    IF entry # NoneEntry /\ fallback_to_cache THEN Return(entry.data)
    ELSE IF fail_silently THEN Return(None)
    ELSE Raise("RateLimit")

\* an except branch that gives None where it has no entry to fall back to
FetchFailedResult_Silent(entry, fallback_to_cache, error) ==
    IF fallback_to_cache /\ entry.timestamp >= 0 THEN [kind |-> "return", val |-> entry.data]
    ELSE [kind |-> "return", val |-> "None"]

\* the except branch around the fetch: "if fallback_to_cache and cached_entry"
FetchFailedResult(entry, fallback_to_cache, error) ==
    IF fallback_to_cache /\ entry # NoneEntry THEN Return(entry.data)
    ELSE Raise(error)

\* what "return await self.pending_requests[key]" gives: the coroutine stored
\* there is suspended inside its owner's "await fetch_promise", and awaiting a
\* coroutine that is being awaited raises
\* RuntimeError("coroutine is being awaited already")
AwaitPending == Raise("RuntimeError")

\* a sync variant that hands the joiner what the async variant hands it
SyncPending_AsAsync == AwaitPending

\* the sync variant's "return None  # Can't wait for pending requests in sync mode"
SyncPending == Return(None)

\* a call past its checks: the locals its later steps read
Admitted(pc, key, o, entry) ==
    [pc |-> pc, key |-> key, ttl |-> o.ttl, force_refresh |-> o.force_refresh,
     fallback_to_cache |-> o.fallback_to_cache, cached_entry |-> entry,
     fetches |-> IF pc = "fetching" THEN 1 ELSE 0]

\* the free call slot a new caller takes (slots are interchangeable)
FreeSlot(c) == calls[c].pc = "idle" /\ \A d \in 1..(c - 1) : calls[d].pc # "idle"

\* a finally block that leaves the pending request in place
cleanup_pending_Never(pend, key) == pend

\* "if key in self.pending_requests: del self.pending_requests[key]"
cleanup_pending(pend, key) == IF key \in DOMAIN pend THEN dict_del(pend, key) ELSE pend

\* TaoStatsCacheService.with_cache from its entry to its first suspension
\* (await fetch_fn()) or to its return: one uninterrupted run of the event loop
AsyncWithCache(c, key, o) ==
    /\ variant = "async"
    /\ FreeSlot(c)
    /\ LET cached_entry == cache_get(cache, key)
           cleaned == cleanup_expired_timestamps(request_timestamps, now)
       IN IF PendingJoin(pending_requests, key, o.force_refresh)
          THEN /\ ev' = Event("join", c, key, o, NoneEntry, NoResult, AwaitPending, 0, {})
               /\ joined' = [joined EXCEPT ![key] = @ \cup {AwaitPending}]
               /\ UNCHANGED <<pending_requests, request_timestamps, calls>>
          ELSE IF CacheHit(cached_entry, o.force_refresh, now)
          THEN /\ ev' = Event("hit", c, key, o, cached_entry, NoResult,
                              Return(cached_entry.data), 0, {})
               /\ UNCHANGED <<pending_requests, request_timestamps, calls, joined>>
          ELSE IF Denied(cleaned, minute_request_limit, o.critical)
          THEN /\ request_timestamps' = cleaned
               /\ ev' = Event("limited", c, key, o, cached_entry, NoResult,
                              LimitedResult(cached_entry, o.fallback_to_cache, o.fail_silently),
                              get_wait_time_ms(cleaned, now), {})
               /\ UNCHANGED <<pending_requests, calls, joined>>
          ELSE /\ Len(cleaned) < MaxLedger
               /\ request_timestamps' = record_request(cleaned, now)
               /\ pending_requests' = dict_set(pending_requests, key, c)
               /\ calls' = [calls EXCEPT ![c] = Admitted("fetching", key, o, cached_entry)]
               /\ joined' = [joined EXCEPT ![key] = {}]
               /\ ev' = Event("admitted", c, key, o, cached_entry, NoResult, NoResult, 0, {})
    /\ UNCHANGED <<variant, minute_request_limit, cache, now, disk>>

\* SyncTaoStatsCacheService.with_cache, a thread's steps.  The method takes no
\* lock, so another thread can run between its checks and what it does after
\* them: the checks (lines 482-516) are one step and the registration of the
\* fetch (lines 518-529) is the next.
SyncWithCache(c, key, o) ==
    /\ variant = "sync"
    /\ FreeSlot(c)
    /\ LET cached_entry == cache_get(cache, key)
           cleaned == cleanup_expired_timestamps(request_timestamps, now)
       IN IF PendingJoin(pending_requests, key, o.force_refresh)
          THEN /\ ev' = Event("join", c, key, o, NoneEntry, NoResult, SyncPending, 0, {})
               /\ joined' = [joined EXCEPT ![key] = @ \cup {SyncPending}]
               /\ UNCHANGED <<request_timestamps, calls>>
          ELSE IF CacheHit(cached_entry, o.force_refresh, now)
          THEN /\ ev' = Event("hit", c, key, o, cached_entry, NoResult,
                              Return(cached_entry.data), 0, {})
               /\ UNCHANGED <<request_timestamps, calls, joined>>
          ELSE IF Denied(cleaned, minute_request_limit, o.critical)
          THEN /\ request_timestamps' = cleaned
               /\ ev' = Event("limited", c, key, o, cached_entry, NoResult,
                              LimitedResult(cached_entry, o.fallback_to_cache, o.fail_silently),
                              get_wait_time_ms(cleaned, now), {})
               /\ UNCHANGED <<calls, joined>>
          ELSE /\ request_timestamps' = cleaned
               /\ calls' = [calls EXCEPT ![c] = Admitted("register", key, o, cached_entry)]
               /\ ev' = Event("admitted", c, key, o, cached_entry, NoResult, NoResult, 0, {})
               /\ UNCHANGED joined
    /\ UNCHANGED <<variant, minute_request_limit, cache, pending_requests, now, disk>>

\* lines 518-529: mark the key pending, record the request, call fetch_fn
SyncRegister(c) ==
    /\ calls[c].pc = "register"
    /\ Len(request_timestamps) < MaxLedger
    /\ pending_requests' = dict_set(pending_requests, calls[c].key, TRUE)
    /\ request_timestamps' = record_request(request_timestamps, now)
    /\ calls' = [calls EXCEPT ![c].pc = "fetching", ![c].fetches = @ + 1]
    /\ joined' = [joined EXCEPT ![calls[c].key] = {}]
    /\ ev' = Event("registered", c, calls[c].key, OptionsOf(calls[c]), calls[c].cached_entry,
                   NoResult, NoResult, 0, {})
    /\ UNCHANGED <<variant, minute_request_limit, cache, now, disk>>

\* fetch_fn() has returned result: store, persist, return, and the finally block
\* (async lines 249-255 and 264-267, sync lines 531-537 and 546-549)
FetchReturned(c, result) ==
    /\ calls[c].pc = "fetching"
    /\ LET key == calls[c].key
           stored == cache_put(cache, key, CacheEntry(result, calls[c].ttl, now))
       IN /\ cache' = stored
          /\ disk' = persist_cache(stored, request_timestamps, now)
          /\ pending_requests' = cleanup_pending(pending_requests, key)
          /\ ev' = Event("settle_ok", c, key, OptionsOf(calls[c]), calls[c].cached_entry,
                         Return(result), Return(result), 0, joined[key])
          /\ joined' = [joined EXCEPT ![key] = {}]
    /\ calls' = [calls EXCEPT ![c] = IdleCall]
    /\ UNCHANGED <<variant, minute_request_limit, request_timestamps, now>>

\* an except branch that writes the stale data it serves back as a fresh entry
FetchRaised_Refreshing(c, error) ==
    /\ calls[c].pc = "fetching"
    /\ LET key == calls[c].key
           served == FetchFailedResult(calls[c].cached_entry, calls[c].fallback_to_cache, error)
       IN /\ pending_requests' = cleanup_pending(pending_requests, key)
          /\ cache' = IF served.kind = "return"
                      THEN cache_put(cache, key, CacheEntry(served.val, calls[c].ttl, now))
                      ELSE cache
          /\ ev' = Event("settle_fail", c, key, OptionsOf(calls[c]), calls[c].cached_entry,
                         Raise(error), served, 0, joined[key])
          /\ joined' = [joined EXCEPT ![key] = {}]
    /\ calls' = [calls EXCEPT ![c] = IdleCall]
    /\ UNCHANGED <<variant, minute_request_limit, request_timestamps, now, disk>>

\* fetch_fn() has raised error: the except branch and the finally block
\* (async lines 256-267, sync lines 538-549)
FetchRaised(c, error) ==
    /\ calls[c].pc = "fetching"
    /\ LET key == calls[c].key
       IN /\ pending_requests' = cleanup_pending(pending_requests, key)
          /\ ev' = Event("settle_fail", c, key, OptionsOf(calls[c]), calls[c].cached_entry,
                         Raise(error),
                         FetchFailedResult(calls[c].cached_entry,
                                           calls[c].fallback_to_cache, error),
                         0, joined[key])
          /\ joined' = [joined EXCEPT ![key] = {}]
    /\ calls' = [calls EXCEPT ![c] = IdleCall]
    /\ UNCHANGED <<variant, minute_request_limit, cache, request_timestamps, now, disk>>

\* time passes
Tick ==
    /\ now + Quantum \in Times
    /\ now' = now + Quantum
    /\ ev' = NoEvent
    /\ UNCHANGED <<variant, minute_request_limit, cache, pending_requests,
                   request_timestamps, disk, calls, joined>>

\* a millisecond passes
TickMs ==
    /\ now < MaxFine
    /\ now' = now + 1
    /\ ev' = NoEvent
    /\ UNCHANGED <<variant, minute_request_limit, cache, pending_requests,
                   request_timestamps, disk, calls, joined>>

\* the caller that was refused lets the wait_time it was given pass
\* (wait_time = self._get_wait_time_ms(), async line 225, sync line 506)
WaitOut ==
    /\ ev.step = "limited"
    /\ ev.wait_time > 0
    /\ now + ev.wait_time \in Times
    /\ now' = now + ev.wait_time
    /\ ev' = [ev EXCEPT !.step = "waited"]
    /\ UNCHANGED <<variant, minute_request_limit, cache, pending_requests,
                   request_timestamps, disk, calls, joined>>

\* ------------------------------------------------------------ whole calls
\* A with_cache call that runs from its entry to its return with no other call
\* in between, as a function of the service's state st (cache, pending_requests,
\* request_timestamps, disk), the time t, the limit, and what fetch_fn gives if
\* it is invoked (outcome: Return(v) or Raise(e)); invoked tells whether it was.

\* TaoStatsCacheService.with_cache: execute_fetch() is created and registered
\* (lines 270-271), then awaited: it records the request, awaits fetch_fn,
\* stores and persists or falls back, and removes the pending request
with_cache_async(st, key, o, t, limit, outcome) ==
    LET cached_entry == cache_get(st.cache, key)
        cleaned == cleanup_expired_timestamps(st.request_timestamps, t)
    IN IF PendingJoin(st.pending_requests, key, o.force_refresh)
       THEN [result |-> AwaitPending, invoked |-> FALSE, cache |-> st.cache,
             pending_requests |-> st.pending_requests,
             request_timestamps |-> st.request_timestamps, disk |-> st.disk]
       ELSE IF CacheHit(cached_entry, o.force_refresh, t)
       THEN [result |-> Return(cached_entry.data), invoked |-> FALSE, cache |-> st.cache,
             pending_requests |-> st.pending_requests,
             request_timestamps |-> st.request_timestamps, disk |-> st.disk]
       ELSE IF Denied(cleaned, limit, o.critical)
       THEN [result |-> LimitedResult(cached_entry, o.fallback_to_cache, o.fail_silently),
             invoked |-> FALSE, cache |-> st.cache,
             pending_requests |-> st.pending_requests,
             request_timestamps |-> cleaned, disk |-> st.disk]
       ELSE LET registered == dict_set(st.pending_requests, key, "coroutine")
                recorded == record_request(cleaned, t)
            IN IF outcome.kind = "return"
               THEN LET stored == cache_put(st.cache, key, CacheEntry(outcome.val, o.ttl, t))
                    IN [result |-> Return(outcome.val), invoked |-> TRUE, cache |-> stored,
                        pending_requests |-> cleanup_pending(registered, key),
                        request_timestamps |-> recorded,
                        disk |-> persist_cache(stored, recorded, t)]
               ELSE [result |-> FetchFailedResult(cached_entry, o.fallback_to_cache,
                                                  outcome.val),
                     invoked |-> TRUE, cache |-> st.cache,
                     pending_requests |-> cleanup_pending(registered, key),
                     request_timestamps |-> recorded, disk |-> st.disk]

\* SyncTaoStatsCacheService.with_cache: the key is marked pending with True
\* (line 519), then the try block records the request, calls fetch_fn, stores
\* and persists or falls back, and the finally block removes the mark
with_cache_sync(st, key, o, t, limit, outcome) ==
    LET cached_entry == cache_get(st.cache, key)
    IN IF PendingJoin(st.pending_requests, key, o.force_refresh)
       THEN [result |-> SyncPending, invoked |-> FALSE, cache |-> st.cache,
             pending_requests |-> st.pending_requests,
             request_timestamps |-> st.request_timestamps, disk |-> st.disk]
       ELSE IF CacheHit(cached_entry, o.force_refresh, t)
       THEN [result |-> Return(cached_entry.data), invoked |-> FALSE, cache |-> st.cache,
             pending_requests |-> st.pending_requests,
             request_timestamps |-> st.request_timestamps, disk |-> st.disk]
       ELSE LET cleaned == cleanup_expired_timestamps(st.request_timestamps, t)
            IN IF Denied(cleaned, limit, o.critical)
               THEN [result |-> LimitedResult(cached_entry, o.fallback_to_cache,
                                              o.fail_silently),
                     invoked |-> FALSE, cache |-> st.cache,
                     pending_requests |-> st.pending_requests,
                     request_timestamps |-> cleaned, disk |-> st.disk]
               ELSE LET marked == dict_set(st.pending_requests, key, TRUE)
                        recorded == record_request(cleaned, t)
                    IN IF outcome.kind = "return"
                       THEN LET stored ==
                                  cache_put(st.cache, key, CacheEntry(outcome.val, o.ttl, t))
                            IN [result |-> Return(outcome.val), invoked |-> TRUE,
                                cache |-> stored,
                                pending_requests |-> cleanup_pending(marked, key),
                                request_timestamps |-> recorded,
                                disk |-> persist_cache(stored, recorded, t)]
                       ELSE [result |-> FetchFailedResult(cached_entry, o.fallback_to_cache,
                                                          outcome.val),
                             invoked |-> TRUE, cache |-> st.cache,
                             pending_requests |-> cleanup_pending(marked, key),
                             request_timestamps |-> recorded, disk |-> st.disk]

\* a caller of either service makes a call that no other call overlaps
SequentialCall(key, o, outcome) ==
    /\ Len(request_timestamps) < MaxLedger
    /\ LET r == IF variant = "async"
                THEN with_cache_async(Pre, key, o, now, minute_request_limit, outcome)
                ELSE with_cache_sync(Pre, key, o, now, minute_request_limit, outcome)
       IN /\ cache' = r.cache
          /\ pending_requests' = r.pending_requests
          /\ request_timestamps' = r.request_timestamps
          /\ disk' = r.disk
          /\ ev' = Event("call", 1, key, o, cache_get(cache, key),
                         IF r.invoked THEN outcome ELSE NoResult, r.result, 0, {})
                   @@ [outcome |-> outcome]
    /\ UNCHANGED <<variant, minute_request_limit, now, calls, joined>>

\* ------------------------------------------------------------ get_cache_stats
\* stats that count the ledger as they find it
cache_stats_Unpurged(c, ts, limit, t) ==
    [size |-> Cardinality(DOMAIN c),
     current_minute_requests |-> Len(ts),
     api_calls_remaining |-> Max(0, limit - Len(ts)),
     window_reset_seconds |-> -1]

\* the dict get_cache_stats returns for the store c, the ledger ts as it finds
\* it, at time t; window_reset_seconds is -1 for 'Available now' and n for
\* f'{wait_time // 1000} seconds'
cache_stats(c, ts, limit, t) ==
    LET cleaned == cleanup_expired_timestamps(ts, t)
    IN [size |-> Cardinality(DOMAIN c),
        current_minute_requests |-> Len(cleaned),
        api_calls_remaining |-> Max(0, limit - Len(cleaned)),
        window_reset_seconds |->
            IF cleaned # <<>> /\ Len(cleaned) >= limit
            THEN get_wait_time_ms(cleaned, t) \div 1000
            ELSE -1]

\* get_cache_stats of either service: the cleanup of the ledger and the dict
GetCacheStats ==
    /\ request_timestamps' = cleanup_expired_timestamps(request_timestamps, now)
    /\ ev' = Event("stats", 0, "", NoOptions, NoneEntry, NoResult, NoResult, 0, {})
             @@ [stats |-> cache_stats(cache, request_timestamps, minute_request_limit, now)]
    /\ UNCHANGED <<variant, minute_request_limit, cache, pending_requests, now, disk,
                   calls, joined>>

\* ------------------------------------------------------------ server.make_api_request
\* the dicts make_actual_request returns in place of an exception, as their text
EmptyData == "{'data': []}"
TimedOutData == "{'data': [], 'error': 'Request timed out'}"

\* what httpx.get(...), raise_for_status() and response.json() come to: a JSON
\* body, httpx.TimeoutException, httpx.HTTPStatusError, or any other exception
Upstream ==
    {[kind |-> "ok", body |-> v] : v \in Values}
        \cup {[kind |-> k, body |-> None] : k \in {"timeout", "http_status", "error"}}

\* a make_actual_request that answers every failure with the same dict
make_actual_request_Uniform(u) == IF u.kind = "ok" THEN u.body ELSE EmptyData

\* make_actual_request: the fetch_fn handed to with_cache
make_actual_request(u) ==
    CASE u.kind = "ok" -> u.body
      [] u.kind = "timeout" -> TimedOutData
      [] u.kind = "http_status" -> EmptyData
      [] OTHER -> EmptyData

\* the options make_api_request passes, ttl being chosen from the endpoint
ApiOptions(ttl) ==
    [ttl |-> ttl, force_refresh |-> FALSE, fallback_to_cache |-> TRUE,
     critical |-> FALSE, fail_silently |-> TRUE]

\* make_api_request up to the registration of the fetch: without
\* TAOSTATS_API_KEY it returns the empty dict at once, with it it calls
\* tao_stats_cache.with_cache, the sync service
MakeApiRequest(c, key, ttl, has_key) ==
    \/ /\ ~has_key
       /\ FreeSlot(c)
       /\ ev' = Event("no_api_key", c, key, ApiOptions(ttl), NoneEntry, NoResult,
                      Return(EmptyData), 0, {})
       /\ UNCHANGED <<variant, minute_request_limit, cache, pending_requests,
                      request_timestamps, now, disk, calls, joined>>
    \/ /\ has_key
       /\ SyncWithCache(c, key, ApiOptions(ttl))

\* the upstream call of a registered fetch has ended as u: make_actual_request
\* returns, with_cache stores, persists and returns (sync lines 531-537, 546-549)
UpstreamAnswered(c, u) ==
    /\ calls[c].pc = "fetching"
    /\ LET key == calls[c].key
           result == make_actual_request(u)
           stored == cache_put(cache, key, CacheEntry(result, calls[c].ttl, now))
       IN /\ cache' = stored
          /\ disk' = persist_cache(stored, request_timestamps, now)
          /\ pending_requests' = cleanup_pending(pending_requests, key)
          /\ ev' = Event("settle_ok", c, key, OptionsOf(calls[c]), calls[c].cached_entry,
                         Return(result), Return(result), 0, joined[key])
                   @@ [upstream |-> u]
          /\ joined' = [joined EXCEPT ![key] = {}]
    /\ calls' = [calls EXCEPT ![c] = IdleCall]
    /\ UNCHANGED <<variant, minute_request_limit, request_timestamps, now>>

\* ------------------------------------------------------------ snapshot load
\* a from_dict that takes the expiry for the creation time's
from_dict_KeepsCreation(d) == [data |-> d.data, timestamp |-> d.timestamp, expires_at |-> d.timestamp]

\* CacheEntry.from_dict
from_dict(d) == [data |-> d.data, timestamp |-> d.timestamp, expires_at |-> d.expiresAt]

\* Files that are not the json.dump of a snapshot carry the field malformed:
\* text that is not JSON
InvalidJson == [malformed |-> "invalid_json"]
\* JSON whose top level is a list or a str: "'entries' in cache_data" is False
TopLevelList == [malformed |-> "top_level_list"]
\* JSON whose top level is a number or null: "'entries' in cache_data" raises
TopLevelNumber == [malformed |-> "top_level_number"]
\* a snapshot whose "entries" list continues, after the entries of file, with a
\* [key, dict] pair whose dict lacks a field
BadEntryAfter(file) ==
    [malformed |-> "bad_entry", timestamp |-> file.timestamp,
     requestTimestamps |-> file.requestTimestamps, entries |-> file.entries]

\* json.load gives a dict with the two lists (the missing file is given as an
\* empty snapshot, which loads as nothing)
Readable(file) ==
    "malformed" \notin DOMAIN file \/ file.malformed = "bad_entry"

\* a load that restores every timestamp of the file
load_request_timestamps_Unfiltered(file, t) ==
    IF "requestTimestamps" \in DOMAIN file THEN file.requestTimestamps ELSE <<>>

\* _initialize_cache, the ledger it leaves: the timestamps of the file inside
\* the window.  FileNotFoundError, JSONDecodeError and any other exception are
\* caught and logged, and what was restored before the exception stays.
load_request_timestamps(file, t) ==
    IF Readable(file)
    THEN SelectSeq(file.requestTimestamps, LAMBDA x : t - x < window_size_ms)
    ELSE <<>>

\* _initialize_cache, the store it leaves: the entries of the file that are not
\* expired; the entries before a malformed one are restored before the
\* exception it raises
load_entries(file, t) ==
    IF Readable(file)
    THEN [k \in {x \in DOMAIN file.entries : ~is_expired(from_dict(file.entries[x]), t)}
            |-> from_dict(file.entries[k])]
    ELSE EmptyDict

\* a process ends (atexit) and writes its snapshot
PersistAtExit ==
    /\ disk' = persist_cache(cache, request_timestamps, now)
    /\ ev' = Event("persist", 0, "", NoOptions, NoneEntry, NoResult, NoResult, 0, {})
    /\ UNCHANGED <<variant, minute_request_limit, cache, pending_requests,
                   request_timestamps, now, calls, joined>>

\* a new process constructs the service: __init__ and _initialize_cache
Construct ==
    /\ cache' = load_entries(disk, now)
    /\ request_timestamps' = load_request_timestamps(disk, now)
    /\ pending_requests' = EmptyDict
    /\ calls' = [c \in Calls |-> IdleCall]
    /\ joined' = [k \in Keys |-> {}]
    /\ ev' = Event("construct", 0, "", NoOptions, NoneEntry, NoResult, NoResult, 0, {})
    /\ UNCHANGED <<variant, minute_request_limit, now, disk>>

\* the file is removed, or replaced by something that is not a snapshot, or
\* gets a malformed entry appended
Corrupt(kind) ==
    /\ disk' = CASE kind = "missing" -> NoFile
                  [] kind = "invalid_json" -> InvalidJson
                  [] kind = "top_level_list" -> TopLevelList
                  [] kind = "top_level_number" -> TopLevelNumber
                  [] kind = "bad_entry" ->
                       BadEntryAfter(IF Readable(disk) THEN disk ELSE NoFile)
    /\ disk' # disk
    /\ ev' = NoEvent
    /\ UNCHANGED <<variant, minute_request_limit, cache, pending_requests,
                   request_timestamps, now, calls, joined>>

\* the process ends in order, atexit writes the snapshot, and a new process
\* constructs the service from it
GracefulRestart ==
    LET written == persist_cache(cache, request_timestamps, now)
    IN /\ disk' = written
       /\ cache' = load_entries(written, now)
       /\ request_timestamps' = load_request_timestamps(written, now)
       /\ pending_requests' = EmptyDict
       /\ calls' = [c \in Calls |-> IdleCall]
       /\ joined' = [k \in Keys |-> {}]
       /\ ev' = Event("restart", 0, "", NoOptions, NoneEntry, NoResult, NoResult, 0, {})
       /\ UNCHANGED <<variant, minute_request_limit, now>>

\* fetch_fn() has returned result and _persist_cache fails: open() raises and
\* the file stays as it was, or json.dump raises after open() truncated the
\* file; _persist_cache catches and logs (async lines 137-138, sync 418-419)
FetchReturnedWriteFails(c, result) ==
    /\ calls[c].pc = "fetching"
    /\ LET key == calls[c].key
           stored == cache_put(cache, key, CacheEntry(result, calls[c].ttl, now))
       IN /\ cache' = stored
          /\ disk' \in {disk, InvalidJson}
          /\ pending_requests' = cleanup_pending(pending_requests, key)
          /\ ev' = Event("settle_ok_write_failed", c, key, OptionsOf(calls[c]),
                         calls[c].cached_entry, Return(result), Return(result), 0,
                         joined[key])
          /\ joined' = [joined EXCEPT ![key] = {}]
    /\ calls' = [calls EXCEPT ![c] = IdleCall]
    /\ UNCHANGED <<variant, minute_request_limit, request_timestamps, now>>

\* a new process constructs the service and open() raises an OSError that is
\* not FileNotFoundError: the outer except logs it (async lines 111-112, sync
\* 392-393) and __init__ goes on with the empty store and ledger it set up
ConstructReadFails ==
    /\ disk # NoFile
    /\ cache' = EmptyDict
    /\ request_timestamps' = <<>>
    /\ pending_requests' = EmptyDict
    /\ calls' = [c \in Calls |-> IdleCall]
    /\ joined' = [k \in Keys |-> {}]
    /\ ev' = Event("construct_read_failed", 0, "", NoOptions, NoneEntry, NoResult,
                   Return(None), 0, {})
    /\ UNCHANGED <<variant, minute_request_limit, now, disk>>

\* the times at which snapshots are written and loaded: an instant, the next
\* millisecond, and the instant at which a timestamp of 199 leaves the window
SnapshotTimes == {200, 201, 199 + window_size_ms}

\* time passes between a write and a load
ClockJumps(t) ==
    /\ t > now
    /\ now' = t
    /\ ev' = NoEvent
    /\ UNCHANGED <<variant, minute_request_limit, cache, pending_requests,
                   request_timestamps, disk, calls, joined>>

\* ------------------------------------------------------------ invalidation
\* the keys of the stores the invalidations are tried on, and the prefixes asked
StoreKeys == {"a", "ab", "b"}
Prefixes == {"", "a", "ab", "abc", "b", "c"}

\* a str as the sequence of its characters
Chars ==
    ("" :> <<>>) @@ ("a" :> <<"a">>) @@ ("b" :> <<"b">>) @@ ("c" :> <<"c">>)
    @@ ("ab" :> <<"a", "b">>) @@ ("abc" :> <<"a", "b", "c">>)

\* a test that finds the prefix anywhere in the key
startswith_Anywhere(key, prefix) ==
    \E i \in 1..(Len(Chars[key]) + 1) :
       /\ i + Len(Chars[prefix]) - 1 <= Len(Chars[key])
       /\ SubSeq(Chars[key], i, i + Len(Chars[prefix]) - 1) = Chars[prefix]

\* key.startswith(prefix)
startswith(key, prefix) ==
    /\ Len(Chars[prefix]) <= Len(Chars[key])
    /\ SubSeq(Chars[key], 1, Len(Chars[prefix])) = Chars[prefix]

\* an invalidate that also drops the pending request of the key
Invalidate_Detaching(key) ==
    /\ cache' = IF key \in DOMAIN cache THEN dict_del(cache, key) ELSE cache
    /\ pending_requests' = cleanup_pending(pending_requests, key)
    /\ ev' = Event("invalidate", 0, key, NoOptions, NoneEntry, NoResult, Return(None), 0, {})
    /\ UNCHANGED <<variant, minute_request_limit, request_timestamps,
                   now, disk, calls, joined>>

\* invalidate(key): "if key in self.cache: del self.cache[key]"
Invalidate(key) ==
    /\ cache' = IF key \in DOMAIN cache THEN dict_del(cache, key) ELSE cache
    /\ ev' = Event("invalidate", 0, key, NoOptions, NoneEntry, NoResult, Return(None), 0, {})
    /\ UNCHANGED <<variant, minute_request_limit, pending_requests, request_timestamps,
                   now, disk, calls, joined>>

\* invalidate_by_prefix(prefix): deletes the keys that start with prefix and
\* returns their count
InvalidateByPrefix(prefix) ==
    /\ LET matching == {k \in DOMAIN cache : startswith(k, prefix)}
       IN /\ cache' = [k \in DOMAIN cache \ matching |-> cache[k]]
          /\ ev' = Event("invalidate_by_prefix", 0, prefix, NoOptions, NoneEntry, NoResult,
                         Return(Cardinality(matching)), 0, {})
    /\ UNCHANGED <<variant, minute_request_limit, pending_requests, request_timestamps,
                   now, disk, calls, joined>>

\* clear(): self.cache.clear()
Clear ==
    /\ cache' = EmptyDict
    /\ ev' = Event("clear", 0, "", NoOptions, NoneEntry, NoResult, Return(None), 0, {})
    /\ UNCHANGED <<variant, minute_request_limit, pending_requests, request_timestamps,
                   now, disk, calls, joined>>

\* ------------------------------------------------------------ CacheEntry alone
\* CacheEntry(data, ttl) is constructed at the time now and kept under the key
\* "a"; ev remembers the ttl and the time t0 of the construction, and the time q
\* and the answer of the last query
EntryWritten(data, ttl) ==
    /\ cache' = cache_put(cache, "a", CacheEntry(data, ttl, now))
    /\ ev' = [step |-> "written", ttl |-> ttl, t0 |-> now, q |-> now, expired |-> FALSE]
    /\ UNCHANGED <<variant, minute_request_limit, pending_requests, request_timestamps,
                   now, disk, calls, joined>>

\* entry.is_expired() is asked at the time now
EntryQueried ==
    /\ ev.step \in {"written", "queried"}
    /\ ev' = [ev EXCEPT !.step = "queried", !.q = now,
                       !.expired = is_expired(cache["a"], now)]
    /\ UNCHANGED <<variant, minute_request_limit, cache, pending_requests,
                   request_timestamps, now, disk, calls, joined>>

\* a millisecond passes in the life of the entry
EntryAges ==
    /\ now < MaxFine
    /\ now' = now + 1
    /\ UNCHANGED <<variant, minute_request_limit, cache, pending_requests,
                   request_timestamps, disk, calls, joined, ev>>

\* ------------------------------------------------------------ specifications
\* the state after __init__ with no cache file on disk, for a variant in V and
\* a minute_request_limit in L
InitWith(V, L) ==
    /\ variant \in V
    /\ minute_request_limit \in L
    /\ cache = EmptyDict
    /\ pending_requests = EmptyDict
    /\ request_timestamps = <<>>
    /\ now = 0
    /\ disk = NoFile
    /\ calls = [c \in Calls |-> IdleCall]
    /\ joined = [k \in Keys |-> {}]
    /\ ev = NoEvent

InitOf(V) == InitWith(V, Limits)

Init == InitOf({"async", "sync"})

\* a call of the async service, a settled fetch, or the passage of time
NextAsync ==
    \/ \E c \in Calls, key \in Keys, o \in Options : AsyncWithCache(c, key, o)
    \/ \E c \in Calls, result \in Values : FetchReturned(c, result)
    \/ \E c \in Calls, error \in FetchErrors : FetchRaised(c, error)
    \/ Tick

\* a step of a thread in the sync service, a settled fetch, or the passage of time
NextSync ==
    \/ \E c \in Calls, key \in Keys, o \in Options : SyncWithCache(c, key, o)
    \/ \E c \in Calls : SyncRegister(c)
    \/ \E c \in Calls, result \in Values : FetchReturned(c, result)
    \/ \E c \in Calls, error \in FetchErrors : FetchRaised(c, error)
    \/ Tick

\* the sync service when no caller passes critical = True
NextSyncNoCritical ==
    \/ \E c \in Calls, key \in Keys, o \in {x \in Options : ~x.critical} :
          SyncWithCache(c, key, o)
    \/ \E c \in Calls : SyncRegister(c)
    \/ \E c \in Calls, result \in Values : FetchReturned(c, result)
    \/ \E c \in Calls, error \in FetchErrors : FetchRaised(c, error)
    \/ Tick

Next ==
    \/ \E c \in Calls, key \in Keys, o \in Options : AsyncWithCache(c, key, o)
    \/ \E c \in Calls, key \in Keys, o \in Options : SyncWithCache(c, key, o)
    \/ \E c \in Calls : SyncRegister(c)
    \/ \E c \in Calls, result \in Values : FetchReturned(c, result)
    \/ \E c \in Calls, error \in FetchErrors : FetchRaised(c, error)
    \/ Tick

\* both services
Spec == Init /\ [][Next]_vars
\* TaoStatsCacheService
SpecAsync == InitOf({"async"}) /\ [][NextAsync]_vars
\* SyncTaoStatsCacheService
SpecSync == InitOf({"sync"}) /\ [][NextSync]_vars
SpecSyncNoCritical == InitOf({"sync"}) /\ [][NextSyncNoCritical]_vars

\* both services when every caller passes fail_silently = True
NextFailSilently ==
    \/ \E c \in Calls, key \in Keys, o \in {x \in Options : x.fail_silently} :
          AsyncWithCache(c, key, o)
    \/ \E c \in Calls, key \in Keys, o \in {x \in Options : x.fail_silently} :
          SyncWithCache(c, key, o)
    \/ \E c \in Calls : SyncRegister(c)
    \/ \E c \in Calls, result \in Values : FetchReturned(c, result)
    \/ \E c \in Calls, error \in FetchErrors : FetchRaised(c, error)
    \/ Tick

SpecFailSilently == Init /\ [][NextFailSilently]_vars

\* the service with a store of entries under keys of StoreKeys, however it got
\* them
InitStore ==
    /\ variant \in {"async", "sync"}
    /\ minute_request_limit = default_minute_request_limit
    /\ \E S \in SUBSET StoreKeys :
          cache \in [S -> {CacheEntry(v, Quantum, 0) : v \in Values}]
    /\ pending_requests = EmptyDict
    /\ request_timestamps = <<>>
    /\ now = 0
    /\ disk = NoFile
    /\ calls = [c \in Calls |-> IdleCall]
    /\ joined = [k \in Keys |-> {}]
    /\ ev = NoEvent

\* the invalidations of either service
NextStore ==
    \/ \E key \in StoreKeys : Invalidate(key)
    \/ \E prefix \in Prefixes : InvalidateByPrefix(prefix)
    \/ Clear

SpecStore == InitStore /\ [][NextStore]_vars

\* either service with the limit 1 and an entry under every key of StoreKeys,
\* called by one caller at a time for the key "a" while entries are invalidated
InitInvalidate ==
    /\ variant \in {"async", "sync"}
    /\ minute_request_limit = 1
    /\ cache = [k \in StoreKeys |-> CacheEntry("v1", Quantum, 0)]
    /\ pending_requests = EmptyDict
    /\ request_timestamps = <<>>
    /\ now = 0
    /\ disk = NoFile
    /\ calls = [c \in Calls |-> IdleCall]
    /\ joined = [k \in Keys |-> {}]
    /\ ev = NoEvent

NextInvalidate ==
    \/ \E key \in Keys, o \in {x \in Options : /\ ~x.fail_silently /\ x.fallback_to_cache
                                                  /\ ~x.critical} :
          AsyncWithCache(1, key, o)
    \/ \E key \in Keys, o \in {x \in Options : /\ ~x.fail_silently /\ x.fallback_to_cache
                                                  /\ ~x.critical} :
          SyncWithCache(1, key, o)
    \/ SyncRegister(1)
    \/ \E result \in Values : FetchReturned(1, result)
    \/ \E error \in FetchErrors : FetchRaised(1, error)
    \/ \E key \in StoreKeys : Invalidate(key)
    \/ \E prefix \in {"", "a"} : InvalidateByPrefix(prefix)
    \/ Clear
    \/ Tick

SpecInvalidate == InitInvalidate /\ [][NextInvalidate]_vars

\* either service called by one caller at a time that asks for its stats, with
\* critical calls that take the ledger past the limit
NextStats ==
    \/ \E key \in Keys, o \in {x \in Options : ~x.fail_silently /\ x.fallback_to_cache} :
          AsyncWithCache(1, key, o)
    \/ \E key \in Keys, o \in {x \in Options : ~x.fail_silently /\ x.fallback_to_cache} :
          SyncWithCache(1, key, o)
    \/ SyncRegister(1)
    \/ \E result \in Values : FetchReturned(1, result)
    \/ \E error \in FetchErrors : FetchRaised(1, error)
    \/ GetCacheStats
    \/ Tick

SpecStats == Init /\ [][NextStats]_vars

\* both services constructed with minute_request_limit = 0
SpecZeroLimit == InitWith({"async", "sync"}, {0}) /\ [][Next]_vars

\* the server's request threads: make_api_request on the singleton
\* tao_stats_cache, a SyncTaoStatsCacheService with the default limit
NextApiRequest ==
    \/ \E c \in Calls, key \in Keys, has_key \in BOOLEAN,
          ttl \in {ttl_historical, ttl_semi_dynamic, ttl_dynamic} :
          MakeApiRequest(c, key, ttl, has_key)
    \/ \E c \in Calls : SyncRegister(c)
    \/ \E c \in Calls, u \in Upstream : UpstreamAnswered(c, u)
    \/ Tick

SpecApiRequest ==
    InitWith({"sync"}, {default_minute_request_limit}) /\ [][NextApiRequest]_vars

\* the async service called by one caller at a time, critical calls included,
\* where a caller that was refused may wait as long as it was told
NextWait ==
    \/ \E key \in Keys, o \in {x \in Options : ~x.fail_silently /\ ~x.fallback_to_cache} :
          AsyncWithCache(1, key, o)
    \/ \E result \in Values : FetchReturned(1, result)
    \/ \E error \in FetchErrors : FetchRaised(1, error)
    \/ WaitOut
    \/ Tick

SpecWait == InitOf({"async"}) /\ [][NextWait]_vars

\* either service under a sequence of calls none of which starts before the
\* previous one has returned
NextSequential ==
    \/ \E key \in Keys, o \in Options,
          outcome \in {Return(v) : v \in Values} \cup {Raise(e) : e \in FetchErrors} :
          SequentialCall(key, o, outcome)
    \/ \E key \in Keys : Invalidate(key)
    \/ \E prefix \in {"", "a"} : InvalidateByPrefix(prefix)
    \/ Clear
    \/ GetCacheStats
    \/ Tick

SpecSequential == Init /\ [][NextSequential]_vars

\* either service called by one caller at a time, with every combination of
\* options
NextOneCaller ==
    \/ \E key \in Keys, o \in Options : AsyncWithCache(1, key, o)
    \/ \E key \in Keys, o \in Options : SyncWithCache(1, key, o)
    \/ SyncRegister(1)
    \/ \E result \in Values : FetchReturned(1, result)
    \/ \E error \in FetchErrors : FetchRaised(1, error)
    \/ Tick

SpecOneCaller == Init /\ [][NextOneCaller]_vars

\* either service with the limit 1, called by one caller at a time at the times
\* of SnapshotTimes: a call at 200 is one millisecond from leaving the window at
\* 199 + window_size_ms
NextLateCall ==
    \/ \E key \in Keys, o \in Options : AsyncWithCache(1, key, o)
    \/ \E key \in Keys, o \in Options : SyncWithCache(1, key, o)
    \/ SyncRegister(1)
    \/ \E result \in Values : FetchReturned(1, result)
    \/ \E error \in FetchErrors : FetchRaised(1, error)
    \/ \E t \in SnapshotTimes : ClockJumps(t)

SpecLateCall == InitWith({"async", "sync"}, {1}) /\ [][NextLateCall]_vars

\* the async service when no caller passes force_refresh = True
NextCoalesce ==
    \/ \E c \in Calls, key \in Keys, o \in {x \in Options : ~x.force_refresh} :
          AsyncWithCache(c, key, o)
    \/ \E c \in Calls, result \in Values : FetchReturned(c, result)
    \/ \E c \in Calls, error \in FetchErrors : FetchRaised(c, error)
    \/ Tick

SpecCoalesce == InitOf({"async"}) /\ [][NextCoalesce]_vars

\* what a fetch_fn can return: Values, and Python's None (the JSON body null
\* that response.json() turns into None, or a fetch_fn of type Callable[[], Optional[T]])
FetchValues == {"v1", None}

\* the sync service, without critical calls, when fetch_fn may return None
NextEmptyValue ==
    \/ \E c \in Calls, key \in Keys, o \in {x \in Options : ~x.critical} :
          SyncWithCache(c, key, o)
    \/ \E c \in Calls : SyncRegister(c)
    \/ \E c \in Calls, result \in FetchValues : FetchReturned(c, result)
    \/ \E c \in Calls, error \in FetchErrors : FetchRaised(c, error)
    \/ Tick

SpecEmptyValue == InitOf({"sync"}) /\ [][NextEmptyValue]_vars

\* the sync service called by one caller at a time, without critical calls, with
\* invalidation, with processes that end in order or are killed and are
\* constructed again, and with reads and writes of the snapshot file that fail
NextPersistence ==
    \/ \E key \in Keys, o \in {x \in Options : ~x.critical /\ ~x.fail_silently
                                                 /\ x.fallback_to_cache} :
          SyncWithCache(1, key, o)
    \/ SyncRegister(1)
    \/ \E result \in Values : FetchReturned(1, result)
    \/ \E result \in Values : FetchReturnedWriteFails(1, result)
    \/ \E error \in FetchErrors : FetchRaised(1, error)
    \/ \E key \in Keys : Invalidate(key)
    \/ \E prefix \in {"", "a"} : InvalidateByPrefix(prefix)
    \/ Clear
    \/ GracefulRestart
    \/ Construct
    \/ ConstructReadFails
    \/ Tick

SpecPersistence == InitOf({"sync"}) /\ [][NextPersistence]_vars

\* a service at one of SnapshotTimes whose store holds, under the keys a and b,
\* entries written at 0 with a ttl of 100, 200 or 201, and whose ledger holds up
\* to MaxLedgerLoaded of the timestamps 100, 199, 200, oldest first
InitSnapshot ==
    /\ variant \in {"async", "sync"}
    /\ minute_request_limit = default_minute_request_limit
    /\ \E S \in SUBSET {"a", "b"} :
          cache \in [S -> {CacheEntry(v, ttl, 0) : v \in Values, ttl \in {100, 200, 201}}]
    /\ pending_requests = EmptyDict
    /\ \E n \in 0..MaxLedgerLoaded :
          /\ request_timestamps \in [1..n -> {100, 199, 200}]
          /\ \A i \in 1..(n - 1) : request_timestamps[i] <= request_timestamps[i + 1]
    /\ now \in SnapshotTimes
    /\ disk = NoFile
    /\ calls = [c \in Calls |-> IdleCall]
    /\ joined = [k \in Keys |-> {}]
    /\ ev = NoEvent

\* writes and loads of the snapshot file, and what can happen to the file
NextSnapshot ==
    \/ PersistAtExit
    \/ Construct
    \/ \E kind \in {"missing", "invalid_json", "top_level_list", "top_level_number",
                      "bad_entry"} : Corrupt(kind)
    \/ \E t \in SnapshotTimes : ClockJumps(t)

SpecSnapshot == InitSnapshot /\ [][NextSnapshot]_vars

\* a CacheEntry from its construction on, under a millisecond clock
NextCacheEntry ==
    \/ \E data \in Values, ttl \in 0..MaxTtl : EntryWritten(data, ttl)
    \/ EntryQueried
    \/ EntryAges

SpecCacheEntry == InitOf({"async"}) /\ [][NextCacheEntry]_vars

\* the async service with the default limit and a millisecond clock: its
\* callers come one at a time, none critical or with force_refresh, and every
\* fetch fails, so that the key stays uncached
NextDefaultLimit ==
    \/ \E key \in Keys, o \in {x \in Options : ~x.critical /\ ~x.force_refresh} :
          AsyncWithCache(1, key, o)
    \/ \E error \in FetchErrors : FetchRaised(1, error)
    \/ TickMs

SpecDefaultLimit ==
    InitWith({"async"}, {default_minute_request_limit}) /\ [][NextDefaultLimit]_vars

\* ------------------------------------------------------------ properties
\* The properties read the record ev of the last step.  The checks of a
\* with_cache call end in one of four ways:
CheckSteps == {"join", "hit", "limited", "admitted"}
SettleSteps == {"settle_ok", "settle_fail"}

\* what the call of the last step found
PreExists == ev.key \in DOMAIN ev.pre.cache
PreLive == PreExists /\ ev.pre.now <= ev.pre.cache[ev.key].expires_at
PrePending == ev.key \in DOMAIN ev.pre.pending_requests
\* the timestamps of the ledger less than window_size_ms old
PreInWindow ==
    SelectSeq(ev.pre.request_timestamps, LAMBDA x : ev.pre.now - x < window_size_ms)
PreAtLimit == Len(PreInWindow) >= minute_request_limit
\* the last step left store, ledger, pending requests, snapshot and calls alone
NoEffect ==
    /\ cache = ev.pre.cache
    /\ request_timestamps = ev.pre.request_timestamps
    /\ pending_requests = ev.pre.pending_requests
    /\ disk = ev.pre.disk
    /\ calls = ev.pre.calls
\* the snapshot file holds the store and the ledger as they are
SnapshotWritten ==
    /\ disk.timestamp = now
    /\ disk.requestTimestamps = request_timestamps
    /\ DOMAIN disk.entries = DOMAIN cache
    /\ \A k \in DOMAIN cache :
          disk.entries[k] = [data |-> cache[k].data, timestamp |-> cache[k].timestamp,
                             expiresAt |-> cache[k].expires_at]

\* C1: concurrent calls without force_refresh for one key that has no entry
\* invoke fetch_fn once, and every caller that found the pending request gets
\* the outcome of the call that owns it.
C1_Coalescing ==
    /\ (ev.step = "join" => calls = ev.pre.calls)
    /\ (/\ ev.step \in SettleSteps
        /\ ~ev.o.force_refresh
        /\ ev.cached_entry = NoneEntry)
       => \A r \in ev.joined : r = ev.result

\* C11: the wait time the rate-limit error carries is
\* max(0, oldest in-window timestamp + window_size_ms - now), taken after the
\* purge (0 with an empty ledger); with the limit 5 and timestamps 0..4 a call
\* at now = 10 is refused with 59990 ms.
C11_WaitTimeCarried ==
    (ev.step = "limited" /\ ev.result = Raise("RateLimit"))
    => ev.message_seconds * 1000 =
          IF PreInWindow = <<>> THEN 0
          ELSE Max(0, (SeqMin(PreInWindow) + window_size_ms) - now)

\* C12: a call raises the rate-limit error only if it was not critical, the
\* ledger held at least minute_request_limit timestamps of the window,
\* fail_silently was false, and no entry existed for the key or
\* fallback_to_cache was false.
C12_RateLimitOnlyWhen ==
    ev.result = Raise("RateLimit")
    => /\ ev.step = "limited"
       /\ ~ev.o.critical
       /\ PreAtLimit
       /\ ~ev.o.fail_silently
       /\ ~PreExists \/ ~ev.o.fallback_to_cache

C12_Witness ==
    /\ ev.result = Raise("RateLimit")
    /\ minute_request_limit > 0
    /\ PreExists
    /\ ~ev.o.fallback_to_cache
    /\ ev.wait_time > 0

\* C13 as claimed (every caller of SpecFailSilently passes fail_silently):
\* when fetch_fn raises and no entry exists for the key, the call returns None
\* and the error goes no further.
C13_FailSilentlySwallows ==
    (ev.step = "settle_fail" /\ ~PreExists /\ ev.cached_entry = NoneEntry)
    => ev.result = Return(None)

\* C13 as the code has it (every caller of SpecFailSilently passes
\* fail_silently): when fetch_fn raises and the call found no entry for the key,
\* the call raises what fetch_fn raised; fail_silently changes nothing.
C13_FailSilentlyPropagates ==
    (ev.step = "settle_fail" /\ ev.cached_entry = NoneEntry)
    => /\ ev.fetched.kind = "raise"
       /\ ev.result = ev.fetched

C13_Witness ==
    /\ ev.step = "settle_fail"
    /\ ev.cached_entry = NoneEntry
    /\ ~PreExists
    /\ ev.result = Raise("UpstreamError")

\* C14: an entry written at t0 with ttl t is expired at every time from
\* t0 + t + 1 on and not expired at any time up to t0 + t: is_expired is the
\* strict test now > expires_at.
C14_ExpiryBoundary ==
    ev.step = "queried"
    => /\ ev.q >= ev.t0 + ev.ttl + 1 => ev.expired
       /\ ev.q <= ev.t0 + ev.ttl => ~ev.expired
       /\ ev.expired = (ev.q > cache["a"].expires_at)

C14_Witness ==
    /\ ev.step = "queried"
    /\ ev.ttl > 0
    /\ ev.t0 > 0
    /\ ev.q = ev.t0 + ev.ttl
    /\ ~ev.expired

\* the pairs <<key, prefix>> in which the key starts with the prefix
StartsWith ==
    {<<"a", "">>, <<"ab", "">>, <<"b", "">>, <<"a", "a">>, <<"ab", "a">>,
     <<"ab", "ab">>, <<"b", "b">>}

\* C15: invalidate_by_prefix removes the entries whose key starts with the
\* prefix and no other, leaves the others as they were and returns the number
\* removed; the empty prefix removes every entry.
C15_InvalidateByPrefix ==
    ev.step = "invalidate_by_prefix"
    => /\ DOMAIN cache = {k \in DOMAIN ev.pre.cache : <<k, ev.key>> \notin StartsWith}
       /\ \A k \in DOMAIN cache : cache[k] = ev.pre.cache[k]
       /\ ev.result = Return(Cardinality(DOMAIN ev.pre.cache \ DOMAIN cache))
       /\ ev.key = "" => cache = EmptyDict

C15_Witness ==
    /\ ev.step = "invalidate_by_prefix"
    /\ ev.key = "b"
    /\ DOMAIN ev.pre.cache = {"a", "ab", "b"}
    /\ DOMAIN cache = {"a", "ab"}
    /\ ev.result = Return(1)

\* the file is what _persist_cache writes at time t for the store c and the
\* ledger ts
DumpOf(c, ts, t) ==
    /\ "malformed" \notin DOMAIN disk
    /\ disk.timestamp = t
    /\ disk.requestTimestamps = ts
    /\ DOMAIN disk.entries = DOMAIN c
    /\ \A k \in DOMAIN c :
          disk.entries[k] = [data |-> c[k].data, timestamp |-> c[k].timestamp,
                             expiresAt |-> c[k].expires_at]

C17_LoadFilters ==
    ev.step = "construct" =>
        /\ \A k \in DOMAIN cache : ~(cache[k].expires_at < now)
        /\ \A i \in 1..Len(request_timestamps) :
              ~(now - request_timestamps[i] >= window_size_ms)
        /\ ( /\ now = 200
             /\ "malformed" \notin DOMAIN disk
             /\ DOMAIN disk.entries = {"a"}
             /\ disk.entries["a"].expiresAt = 100 ) => cache = EmptyDict

\* C17 witness: the snapshot with the one entry that expires at 100 is loaded at
\* 200 into an empty store, and a load at 199 + window_size_ms drops the
\* timestamp 199 of a file
C17_Witness ==
    /\ ev.step = "construct"
    /\ "malformed" \notin DOMAIN disk
    /\ \/ /\ now = 200
          /\ DOMAIN disk.entries = {"a"}
          /\ disk.entries["a"].expiresAt = 100
          /\ cache = EmptyDict
       \/ /\ now = 199 + window_size_ms
          /\ disk.requestTimestamps = <<199, 200>>
          /\ request_timestamps = <<200>>

\* C18: a service constructed from a file that is missing, is not JSON, has a
\* top level of the wrong type, or has a malformed entry after well-formed
\* content, starts with an empty store and an empty ledger.
C18_MalformedLoadsEmpty ==
    (ev.step = "construct" /\ (disk = NoFile \/ "malformed" \in DOMAIN disk)) =>
        (cache = EmptyDict /\ request_timestamps = <<>>)

\* C19: after every step that changes the store or the ledger (a timestamp
\* recorded, a fetched value stored, invalidate, invalidate_by_prefix, clear) the
\* snapshot file is that of the state, so that a process constructed from it at
\* that point has every timestamp in the window and every entry not expired.
C19_SnapshotAfterEachChange ==
    ev.step \in {"registered", "settle_ok", "invalidate", "invalidate_by_prefix", "clear"} =>
        /\ load_request_timestamps(disk, now) =
             SelectSeq(request_timestamps, LAMBDA x : now - x < window_size_ms)
        /\ load_entries(disk, now) =
             [k \in {x \in DOMAIN cache : now <= cache[x].expires_at} |-> cache[k]]

\* C20: a fetch that returned a value and whose snapshot write failed returns the
\* value, with the entry in the store and the ledger as the call left it; a
\* construction whose snapshot read failed completes with an empty store and an
\* empty ledger.
C20_SnapshotFailuresSwallowed ==
    /\ ev.step = "settle_ok_write_failed" =>
          /\ ev.result = ev.fetched
          /\ ev.result.kind = "return"
          /\ ev.key \in DOMAIN cache
          /\ cache[ev.key].data = ev.result.val
          /\ request_timestamps = ev.pre.request_timestamps
    /\ ev.step = "construct_read_failed" =>
          /\ ev.result.kind = "return"
          /\ cache = EmptyDict
          /\ request_timestamps = <<>>

\* C20 witness: the write failed after a call was admitted, recorded its
\* timestamp and fetched v1: the file does not hold the entry that is in the
\* store, nor the timestamp that is in the ledger
C20_Witness ==
    /\ ev.step = "settle_ok_write_failed"
    /\ ev.result = Return("v1")
    /\ cache[ev.key].data = "v1"
    /\ Len(request_timestamps) > 0
    /\ load_entries(disk, now) = EmptyDict
    /\ load_request_timestamps(disk, now) = <<>>

\* C21: the None that stands for "no value" (a silent rate-limit failure, a
\* pending request that the sync variant cannot join) is never the result of a
\* successful fetch or of a cache hit.
C21_NoValueDistinct ==
    ev.step \in {"settle_ok", "hit"} => ev.result # Return(None)

\* C22: get_cache_stats at time now reports as current_minute_requests the
\* number of recorded timestamps t with now - t < window_size_ms, as
\* api_calls_remaining max(0, limit - that number), and as size the number of
\* entries of the store, expired ones included; the ledger it leaves holds no
\* timestamp that has left the window.
C22_StatsAfterPurge ==
    ev.step = "stats" =>
        /\ ev.stats.current_minute_requests = Len(PreInWindow)
        /\ ev.stats.api_calls_remaining = Max(0, minute_request_limit - Len(PreInWindow))
        /\ ev.stats.size = Cardinality(DOMAIN ev.pre.cache)
        /\ request_timestamps = PreInWindow

\* C22 witness: stats asked when the ledger holds a timestamp that has left the
\* window and the store holds an expired entry: the timestamp is not counted,
\* the entry is
C22_Witness ==
    /\ ev.step = "stats"
    /\ Len(ev.pre.request_timestamps) > Len(PreInWindow)
    /\ ev.stats.current_minute_requests = Len(PreInWindow)
    /\ "a" \in DOMAIN ev.pre.cache
    /\ is_expired(ev.pre.cache["a"], now)
    /\ ev.stats.size = 1

\* C23: with minute_request_limit = 0 a call that is not critical never invokes
\* fetch_fn and never records a timestamp, whatever the ledger holds; past the
\* pending check and the cache-hit check it is refused, and gets the stale data,
\* None or the rate-limit error.
C23_ZeroLimitAdmitsNone ==
    (minute_request_limit = 0 /\ ev.step \in CheckSteps /\ ~ev.o.critical) =>
        /\ ev.step # "admitted"
        /\ calls = ev.pre.calls
        /\ Len(request_timestamps) <= Len(ev.pre.request_timestamps)
        /\ ev.step \notin {"join", "hit"} =>
              /\ ev.step = "limited"
              /\ \/ PreExists /\ ev.result = Return(ev.pre.cache[ev.key].data)
                 \/ ev.result = Return(None)
                 \/ ev.result = Raise("RateLimit")

\* C23 witness: a call that is not critical is refused with the rate-limit
\* error while the ledger is empty and the store has no entry for its key
C23_Witness ==
    /\ minute_request_limit = 0
    /\ ev.step = "limited"
    /\ ~ev.o.critical
    /\ ev.pre.request_timestamps = <<>>
    /\ ~PreExists
    /\ ev.result = Raise("RateLimit")

\* C24: a call that is not critical and gets past the pending check and the
\* cache-hit check while fewer than minute_request_limit timestamps are less
\* than window_size_ms old is admitted and goes on to invoke fetch_fn; it is
\* refused only with minute_request_limit or more timestamps in the window.
C24_NoFalseDenial ==
    /\ (/\ ev.step \in CheckSteps \ {"join", "hit"}
        /\ ~ev.o.critical
        /\ Len(PreInWindow) < minute_request_limit)
       => /\ ev.step = "admitted"
          /\ calls[ev.call].pc = (IF variant = "async" THEN "fetching" ELSE "register")
    /\ ev.step = "registered" =>
          (calls[ev.call].pc = "fetching" /\ calls[ev.call].fetches = 1)
    /\ ev.step = "limited" => Len(PreInWindow) >= minute_request_limit

\* C24 witness: with the limit 1 and a ledger whose one timestamp has left the
\* window, a call that is not critical and has no live entry is admitted
C24_Witness ==
    /\ ev.step = "admitted"
    /\ ~ev.o.critical
    /\ minute_request_limit = 1
    /\ Len(ev.pre.request_timestamps) = 1
    /\ PreInWindow = <<>>
    /\ ~PreLive

C26_OneOwnerPerKey ==
    \A key \in Keys :
        Cardinality({c \in Calls : /\ calls[c].pc = "fetching"
                                   /\ calls[c].key = key
                                   /\ ~calls[c].force_refresh}) <= 1

\* C27: in every state each fetch in flight has a pending request registered
\* under its key (the settling of another fetch of the key has not removed it),
\* and each pending request belongs to a key with a fetch in flight.
C27_PendingWhileInFlight ==
    /\ \A c \in Calls :
          calls[c].pc = "fetching" => calls[c].key \in DOMAIN pending_requests
    /\ \A key \in DOMAIN pending_requests :
          \E c \in Calls : calls[c].pc = "fetching" /\ calls[c].key = key

\* C28: with a limit of 1 or more, when a call that is not critical was refused
\* with wait_time w, w has passed and nothing else has happened, the next call
\* that is not critical and reaches the rate-limit check is admitted, whatever
\* the ledger held at the refusal.
C28_AdmittedAfterWait ==
    [][(/\ ev.step = "waited"
        /\ minute_request_limit >= 1
        /\ ev'.step \in {"limited", "admitted"}
        /\ ~ev'.o.critical)
       => ev'.step = "admitted"]_vars

\* the state a step found, as the argument of a whole call
PreState ==
    [cache |-> ev.pre.cache, pending_requests |-> ev.pre.pending_requests,
     request_timestamps |-> ev.pre.request_timestamps, disk |-> ev.pre.disk]

\* C29: a call that no other call overlaps, made at the same time in the same
\* state with the same outcome of fetch_fn, returns the same from the async and
\* from the sync service and leaves the same store, ledger, pending requests and
\* snapshot, which are those the service that made the call is in; invalidate,
\* invalidate_by_prefix, clear and get_cache_stats are one code for both.
C29_VariantsAgree ==
    ev.step = "call" =>
        LET a == with_cache_async(PreState, ev.key, ev.o, ev.pre.now, minute_request_limit,
                                  ev.outcome)
            s == with_cache_sync(PreState, ev.key, ev.o, ev.pre.now, minute_request_limit,
                                 ev.outcome)
        IN /\ a.result = s.result
           /\ a.invoked = s.invoked
           /\ a.cache = s.cache
           /\ a.request_timestamps = s.request_timestamps
           /\ DOMAIN a.pending_requests = DOMAIN s.pending_requests
           /\ a.disk = s.disk
           /\ ev.result = a.result
           /\ cache = a.cache
           /\ request_timestamps = a.request_timestamps
           /\ DOMAIN pending_requests = DOMAIN a.pending_requests
           /\ disk = a.disk

\* C29 witness: the sync service has answered a forced refresh whose fetch
\* failed with the stale data of an expired entry, past the limit as a critical
\* call, and has no pending request left
C29_Witness ==
    /\ ev.step = "call"
    /\ variant = "sync"
    /\ ev.o.force_refresh /\ ev.o.critical /\ ev.o.fallback_to_cache
    /\ ev.outcome.kind = "raise"
    /\ PreExists /\ ~PreLive
    /\ PreAtLimit
    /\ ev.result = Return(ev.pre.cache[ev.key].data)
    /\ pending_requests = EmptyDict
    /\ Len(request_timestamps) = Len(PreInWindow) + 1

\* C30: when a call whose fetch failed returns stale data, that data is the
\* data of the entry the store holds for the key at that moment: not of an entry
\* that was removed or replaced while the fetch was in flight.
C30_FallbackIsCurrentEntry ==
    (ev.step = "settle_fail" /\ ev.result.kind = "return") =>
        (PreExists /\ ev.result.val = ev.pre.cache[ev.key].data)

\* C31: a call whose fetch fails leaves the store and the snapshot as they were,
\* whether it returns stale data or raises: its admission adds one timestamp to
\* the purged ledger and touches no entry, and the failure touches neither
\* store, ledger nor snapshot, so that an expired entry served stays expired.
C31_FailedFetchKeepsStore ==
    /\ ev.step = "settle_fail" =>
          /\ cache = ev.pre.cache
          /\ request_timestamps = ev.pre.request_timestamps
          /\ disk = ev.pre.disk
    /\ ev.step \in {"admitted", "registered"} =>
          /\ cache = ev.pre.cache
          /\ disk = ev.pre.disk
    /\ (ev.step = "admitted" /\ variant = "async") =>
          request_timestamps = Append(PreInWindow, now)
    /\ (ev.step = "admitted" /\ variant = "sync") =>
          request_timestamps = PreInWindow
    /\ ev.step = "registered" =>
          request_timestamps = Append(ev.pre.request_timestamps, now)

\* C31 witness: a failed fetch answered with the data of an expired entry, which
\* is still in the store with the expiry it had
C31_Witness ==
    /\ ev.step = "settle_fail"
    /\ PreExists /\ ~PreLive
    /\ ev.result = Return(ev.pre.cache[ev.key].data)
    /\ cache[ev.key] = ev.pre.cache[ev.key]
    /\ is_expired(cache[ev.key], now)

\* C32: a call refused by the rate-limit check, whether it returns stale data,
\* returns None or raises, does not invoke fetch_fn, appends nothing to the
\* ledger, which it leaves purged, and leaves the pending requests, the store
\* and the snapshot as they were.
C32_DenialChangesNothing ==
    ev.step = "limited" =>
        /\ calls = ev.pre.calls
        /\ request_timestamps = PreInWindow
        /\ pending_requests = ev.pre.pending_requests
        /\ cache = ev.pre.cache
        /\ disk = ev.pre.disk

\* C32 witness: a refusal answered with None that purged a timestamp from a
\* ledger kept at the limit by a later one, with a snapshot on disk
C32_Witness ==
    /\ ev.step = "limited"
    /\ ev.result = Return(None)
    /\ Len(ev.pre.request_timestamps) > Len(PreInWindow)
    /\ request_timestamps = PreInWindow
    /\ disk # NoFile
    /\ disk = ev.pre.disk

\* C33: when a call raises the rate-limit error and the limit is 1 or more, the
\* wait the error states is more than 0 and at most window_size_ms.
C33_WaitWithinWindow ==
    (ev.step = "limited" /\ ev.result = Raise("RateLimit") /\ minute_request_limit >= 1) =>
        (0 < ev.message_seconds * 1000 /\ ev.message_seconds * 1000 <= window_size_ms)

\* C34: among overlapping calls without force_refresh of the async service, one
\* call per key has its fetch in flight; the call that is admitted appends one
\* timestamp to the purged ledger, and a call that finds the pending request
\* leaves the ledger as it was, also when the ledger is at the limit.
C34_JoinersUseNoBudget ==
    /\ \A key \in Keys :
          Cardinality({c \in Calls : calls[c].pc = "fetching" /\ calls[c].key = key}) <= 1
    /\ ev.step = "admitted" => request_timestamps = Append(PreInWindow, ev.pre.now)
    /\ ev.step = "join" =>
          /\ request_timestamps = ev.pre.request_timestamps
          /\ \E c \in Calls : /\ calls[c].pc = "fetching"
                              /\ calls[c].key = ev.key
                              /\ ev.pre.pending_requests[ev.key] = c

\* C34 witness: a call that is not critical found the pending request of another
\* call while the ledger, holding that call's timestamp, was at the limit
C34_Witness ==
    /\ ev.step = "join"
    /\ ~ev.o.critical
    /\ minute_request_limit >= 1
    /\ PreAtLimit
    /\ Len(request_timestamps) = 1
    /\ request_timestamps = ev.pre.request_timestamps

\* C35: get_cache_stats reports 'Available now', with api_calls_remaining above
\* 0, exactly when a call that is not critical made at the same time would get
\* past the rate-limit check, and a reset time exactly when it would be refused.
C35_StatsAgreeWithAdmission ==
    ev.step = "stats" =>
        LET refused == Denied(request_timestamps, minute_request_limit, FALSE)
        IN /\ (ev.stats.window_reset_seconds = -1) <=> ~refused
           /\ (ev.stats.api_calls_remaining > 0) <=> ~refused

\* C36: make_api_request never takes the fallback to a stale entry; an upstream
\* call that ended in an error leaves under the key a live entry that holds the
\* dict make_actual_request returned and expires the endpoint's ttl later; and
\* every later make_api_request that finds this entry live returns its dict
\* without a fetch.
C36_FailureCachedAsSuccess ==
    /\ ev.step # "settle_fail"
    /\ (ev.step = "settle_ok" /\ ev.upstream.kind # "ok") =>
          /\ cache[ev.key].data = make_actual_request(ev.upstream)
          /\ cache[ev.key].expires_at = now + ev.o.ttl
          /\ ~is_expired(cache[ev.key], now)
    /\ (ev.step \in CheckSteps /\ PreLive /\ ev.pre.cache[ev.key].data \in {EmptyData, TimedOutData}) =>
          /\ ev.step = "hit"
          /\ ev.result = Return(ev.pre.cache[ev.key].data)

\* C37: invalidate, invalidate_by_prefix and clear leave the ledger, the pending
\* requests, the fetches in flight and the snapshot as they were; invalidate(key)
\* removes the entry of key, if there is one, and leaves every other entry as it
\* was; invalidate_by_prefix removes entries and changes none; clear leaves the
\* store empty.
C37_InvalidationTouchesStoreOnly ==
    /\ ev.step \in {"invalidate", "invalidate_by_prefix", "clear"} =>
          /\ request_timestamps = ev.pre.request_timestamps
          /\ pending_requests = ev.pre.pending_requests
          /\ calls = ev.pre.calls
          /\ disk = ev.pre.disk
          /\ DOMAIN cache \subseteq DOMAIN ev.pre.cache
          /\ \A k \in DOMAIN cache : cache[k] = ev.pre.cache[k]
    /\ ev.step = "invalidate" => DOMAIN cache = DOMAIN ev.pre.cache \ {ev.key}
    /\ ev.step = "clear" => cache = EmptyDict

\* C37 witness: invalidate("a") while the fetch for "a" is in flight, with its
\* timestamp in the ledger and its pending request registered: the entry of "a"
\* is gone, the entry of "b" is there
C37_Witness ==
    /\ ev.step = "invalidate"
    /\ ev.key = "a"
    /\ "a" \in DOMAIN ev.pre.cache
    /\ "a" \notin DOMAIN cache
    /\ "b" \in DOMAIN cache
    /\ calls[1].pc = "fetching"
    /\ "a" \in DOMAIN pending_requests
    /\ request_timestamps # <<>>

\* C2: when no call is critical, no window of window_size_ms holds more than
\* minute_request_limit recorded timestamps.
C2_WindowWithinLimit ==
    \A t \in Times :
       Cardinality({i \in 1..Len(request_timestamps) :
                      /\ t - window_size_ms < request_timestamps[i]
                      /\ request_timestamps[i] <= t}) <= minute_request_limit

\* C3: a call without force_refresh that finds no pending request and a
\* non-expired entry returns the entry's data and changes nothing: no fetch, no
\* timestamp, store and snapshot as they were.
C3_CacheHitTerminal ==
    (ev.step \in CheckSteps /\ ~ev.o.force_refresh /\ ~PrePending /\ PreLive)
    => /\ ev.step = "hit"
       /\ ev.result = Return(ev.pre.cache[ev.key].data)
       /\ NoEffect

C3_Witness ==
    /\ ev.step = "hit"
    /\ ev.pre.now = ev.pre.cache[ev.key].expires_at
    /\ ev.o.critical
    /\ \E i \in 1..Len(request_timestamps) : now - request_timestamps[i] >= window_size_ms

\* C4: a non-critical call that reaches the rate-limit check with the ledger at
\* its limit returns the entry's data if an entry exists and fallback_to_cache,
\* else None if fail_silently, else raises the rate-limit error.
C4_LimitedOutcome ==
    (/\ ev.step \in {"limited", "admitted"}
     /\ ~ev.o.critical
     /\ PreAtLimit)
    => /\ ev.step = "limited"
       /\ ev.result = IF PreExists /\ ev.o.fallback_to_cache
                        THEN Return(ev.pre.cache[ev.key].data)
                      ELSE IF ev.o.fail_silently THEN Return(None)
                      ELSE Raise("RateLimit")

C4_Witness ==
    /\ ev.step = "limited"
    /\ PreExists
    /\ ev.pre.now > ev.pre.cache[ev.key].expires_at
    /\ ev.o.fallback_to_cache
    /\ ev.o.fail_silently
    /\ ev.result = Return(ev.pre.cache[ev.key].data)

\* C5: when fetch_fn returns v to an admitted call, the call invoked it once,
\* the store holds for the key the entry (v, timestamp = now,
\* expires_at = now + ttl), the snapshot is written, and the call returns v.
C5_FetchSuccess ==
    ev.step = "settle_ok"
    => /\ ev.pre.calls[ev.call].fetches = 1
       /\ ev.key \in DOMAIN cache
       /\ cache[ev.key] = [data |-> ev.fetched.val, timestamp |-> now,
                           expires_at |-> now + ev.o.ttl]
       /\ SnapshotWritten
       /\ ev.result = ev.fetched

C5_Witness ==
    /\ ev.step = "settle_ok"
    /\ PreExists
    /\ ev.pre.cache[ev.key].data # ev.fetched.val
    /\ ev.pre.cache[ev.key].timestamp < now
    /\ ev.pre.disk # disk

\* C6: when fetch_fn raises in an admitted call, the call returns the data of
\* the entry the store holds for the key if there is one and fallback_to_cache,
\* and raises what fetch_fn raised otherwise.
C6_FetchFailureFallback ==
    ev.step = "settle_fail"
    => ev.result = IF PreExists /\ ev.o.fallback_to_cache
                     THEN Return(ev.pre.cache[ev.key].data)
                   ELSE ev.fetched

\* C7: once a fetch has settled, by a value or by an exception, and its call has
\* returned or raised, no pending request is left for the key.
C7_PendingRemoved ==
    ev.step \in SettleSteps
    => /\ ev.key \notin DOMAIN pending_requests
       /\ calls[ev.call].pc = "idle"

C7_Witness ==
    /\ ev.step = "settle_fail"
    /\ ev.result = Raise("UpstreamError")
    /\ PrePending
    /\ ev.key \notin DOMAIN pending_requests

\* C8: a critical call that is past the pending check and the cache-hit check
\* is admitted whatever the ledger holds; it records a timestamp and invokes
\* fetch_fn (in the sync variant in the step after its checks).
C8_CriticalNeverDenied ==
    /\ (/\ ev.step \in CheckSteps
        /\ ev.o.critical
        /\ ~(PrePending /\ ~ev.o.force_refresh)
        /\ ~(PreLive /\ ~ev.o.force_refresh))
       => /\ ev.step = "admitted"
          /\ variant = "async"
             => /\ request_timestamps = Append(PreInWindow, now)
                /\ calls[ev.call].pc = "fetching"
                /\ calls[ev.call].fetches = 1
          /\ variant = "sync" => calls[ev.call].pc = "register"
    /\ ev.step = "registered"
       => /\ ev.pre.calls[ev.call].pc = "register"
          /\ request_timestamps = Append(ev.pre.request_timestamps, now)
          /\ calls[ev.call].pc = "fetching"
          /\ calls[ev.call].fetches = 1

C8_Witness ==
    /\ ev.step = "admitted"
    /\ ev.o.critical
    /\ minute_request_limit > 0
    /\ PreAtLimit
    /\ Len(request_timestamps) > minute_request_limit

\* C9: a call with force_refresh never joins a pending request and never
\* returns by the cache-hit check; when the rate limiter admits it, it starts a
\* fetch of its own, also with a fetch for the key in flight or a live entry.
C9_ForceRefreshStartsFetch ==
    (ev.step \in CheckSteps /\ ev.o.force_refresh)
    => /\ ev.step \in {"limited", "admitted"}
       /\ (PreAtLimit /\ ~ev.o.critical) \/ ev.step = "admitted"
       /\ ev.step = "admitted"
          => /\ ev.pre.calls[ev.call].pc = "idle"
             /\ calls[ev.call].pc = IF variant = "async" THEN "fetching" ELSE "register"
             /\ calls[ev.call].key = ev.key

C9_Witness ==
    /\ ev.step = "admitted"
    /\ ev.o.force_refresh
    /\ PrePending
    /\ PreLive
    /\ \E c \in Calls : c # ev.call /\ calls[c].pc = "fetching" /\ calls[c].key = ev.key

\* C10: in the sync variant a call without force_refresh that finds a pending
\* request for its key returns None at once: no fetch, no timestamp, also when
\* a live entry exists.
C10_SyncPendingReturnsNone ==
    (variant = "sync" /\ ev.step \in CheckSteps /\ ~ev.o.force_refresh /\ PrePending)
    => /\ ev.step = "join"
       /\ ev.result = Return(None)
       /\ NoEffect

C10_Witness ==
    /\ variant = "sync"
    /\ ev.step = "join"
    /\ PreLive
    /\ ev.result = Return(None)
    /\ ev.o.critical

====
